---- MODULE Spec2Model ----
(***************************************************************************)
(* Model of my_module/image_processing.py: process_image and its helpers   *)
(* _gaussian_kernel1d and _apply_separable_conv2d.                         *)
(*                                                                         *)
(* Numbers.  An array element is a record [k, n]: k = "fin" with integer   *)
(* numerator n, or one of the IEEE specials "nan", "pinf", "ninf".  An     *)
(* array carries one positive denominator den for all its finite elements, *)
(* so a finite element stands for the rational n / den.  Arithmetic is     *)
(* exact rational arithmetic: float32 rounding is not modelled.  The       *)
(* Gaussian samples exp(-t) are fixed-point numbers with ExpScale as unit. *)
(***************************************************************************)
EXTENDS Integers, Sequences, FiniteSets, TLC

\* ------------------------------------------------------------------ bounds
MaxH == 3
MaxW == 3
MaxC == 2
MaxVal == 2
ExpScale == 1000

\* ------------------------------------------------------------------ values
Fin(n) == [k |-> "fin", n |-> n]
NaN == [k |-> "nan", n |-> 0]
PInf == [k |-> "pinf", n |-> 0]
NInf == [k |-> "ninf", n |-> 0]

\* v * w for an element v and a finite weight w >= 0 (IEEE: inf * 0 = nan).
MulW(v, w) ==
  IF v.k = "fin" THEN Fin(v.n * w)
  ELSE IF v.k = "nan" THEN NaN
  ELSE IF w = 0 THEN NaN
  ELSE v

\* IEEE sum of a set of (index, element) terms: nan wins, +inf + -inf = nan.
RECURSIVE SumFin(_, _)
SumFin(T, f) ==
  IF T = {} THEN 0
  ELSE LET t == CHOOSE x \in T : TRUE IN f[t].n + SumFin(T \ {t}, f)

SumTerms(T, f) ==
  IF \E t \in T : f[t].k = "nan" THEN NaN
  ELSE IF (\E t \in T : f[t].k = "pinf") /\ (\E t \in T : f[t].k = "ninf") THEN NaN
  ELSE IF \E t \in T : f[t].k = "pinf" THEN PInf
  ELSE IF \E t \in T : f[t].k = "ninf" THEN NInf
  ELSE Fin(SumFin(T, f))

\* ------------------------------------------------------------------ arrays
\* Index tuples (0-based, as in the source) of an array of the given shape.
Idx(shape) ==
  IF Len(shape) = 1 THEN {<<i>> : i \in 0..(shape[1] - 1)}
  ELSE IF Len(shape) = 2 THEN (0..(shape[1] - 1)) \X (0..(shape[2] - 1))
  ELSE IF Len(shape) = 3
    THEN (0..(shape[1] - 1)) \X (0..(shape[2] - 1)) \X (0..(shape[3] - 1))
  ELSE (0..(shape[1] - 1)) \X (0..(shape[2] - 1)) \X (0..(shape[3] - 1))
         \X (0..(shape[4] - 1))

Array(dtype, shape, data, den) ==
  [cls |-> "ndarray", dtype |-> dtype, shape |-> shape, data |-> data, den |-> den]

\* A Python object that is no numpy.ndarray (a nested list), and "no array".
PyList(shape, data) ==
  [cls |-> "list", dtype |-> "object", shape |-> shape, data |-> data, den |-> 1]
NoArray == [cls |-> "none", dtype |-> "none", shape |-> <<>>, data |-> <<>>, den |-> 0]

ndim(a) == Len(a.shape)

\* ------------------------------------------------------------------ sigma
\* A sigma is the rational num / den (den > 0), or None.
None == [num |-> 0, den |-> 0]
Sig(num, den) == [num |-> num, den |-> den]

\* np.isclose(sigma, 0.0): |sigma - 0| <= atol + rtol * |0| with atol = 1e-8.
IsCloseAtolInv == 100000000
isclose0(sigma) ==
  LET a == IF sigma.num < 0 THEN -sigma.num ELSE sigma.num
  IN IF a = 0 THEN TRUE
     ELSE IF sigma.den < IsCloseAtolInv THEN FALSE
     ELSE a * IsCloseAtolInv <= sigma.den

\* int(np.ceil(3 * sigma)) for sigma > 0.
Radius(sigma) == -((-(3 * sigma.num)) \div sigma.den)

\* exp(p / q) for p >= 0, q > 0 in units of 1 / ExpScale, by its power series
\* (term n+1 = term n * (p / q) / (n + 1), p / q split into whole and fraction).
RECURSIVE ExpSeries(_, _, _, _)
ExpSeries(p, q, n, term) ==
  IF term = 0 THEN 0
  ELSE term + ExpSeries(p, q, n + 1,
                        (term * (p \div q) + (term * (p % q)) \div q) \div (n + 1))

\* np.exp(-(x*x) / (2*sigma*sigma)) in units of 1 / ExpScale, for a = |x| * sigma.den
\* and num = sigma.num > 0.  Beyond 4 sigma the sample is below the unit: 0.
GaussSample(a, num) ==
  IF a > 4 * num THEN 0
  ELSE (ExpScale * ExpScale) \div ExpSeries(a * a, 2 * num * num, 0, ExpScale)

Kernel(taps, den) == [taps |-> taps, den |-> den]
KLen(kernel) == Cardinality(DOMAIN kernel.taps)
DegenerateKernel == Kernel([i \in 0..0 |-> 1], 1)

RECURSIVE SumTaps(_, _)
SumTaps(taps, n) == IF n = 0 THEN 0 ELSE taps[n - 1] + SumTaps(taps, n - 1)

\* Mutant: the np.isclose(sigma, 0.0) test left out of line 10.
_gaussian_kernel1d_NoIsclose(sigma) ==
  IF sigma.num <= 0 THEN DegenerateKernel
  ELSE LET radius == Radius(sigma)
           x == [i \in 0..(2 * radius) |-> i - radius]
           kernel == [i \in 0..(2 * radius) |->
                        GaussSample((IF x[i] < 0 THEN -x[i] ELSE x[i]) * sigma.den,
                                    sigma.num)]
           s == SumTaps(kernel, 2 * radius + 1)
       IN IF s = 0 THEN DegenerateKernel
          ELSE Kernel(kernel, s)

\* Mutant: the radius of line 12 truncated, int(3 * sigma), instead of rounded up.
_gaussian_kernel1d_FloorRadius(sigma) ==
  IF sigma.num <= 0 \/ isclose0(sigma) THEN DegenerateKernel
  ELSE LET radius == (3 * sigma.num) \div sigma.den
           x == [i \in 0..(2 * radius) |-> i - radius]
           kernel == [i \in 0..(2 * radius) |->
                        GaussSample((IF x[i] < 0 THEN -x[i] ELSE x[i]) * sigma.den,
                                    sigma.num)]
           s == SumTaps(kernel, 2 * radius + 1)
       IN IF s = 0 THEN DegenerateKernel
          ELSE Kernel(kernel, s)

_gaussian_kernel1d(sigma) ==
  IF sigma.num <= 0 \/ isclose0(sigma) THEN DegenerateKernel
  ELSE LET radius == Radius(sigma)
           \* x = arange(-radius, radius + 1); kernel = exp(-(x*x) / (2*sigma*sigma))
           x == [i \in 0..(2 * radius) |-> i - radius]
           kernel == [i \in 0..(2 * radius) |->
                        GaussSample((IF x[i] < 0 THEN -x[i] ELSE x[i]) * sigma.den,
                                    sigma.num)]
           s == SumTaps(kernel, 2 * radius + 1)
       IN IF s = 0 THEN DegenerateKernel
          ELSE Kernel(kernel, s)   \* kernel /= s

\* ------------------------------------------------------------------ convolution
Max(a, b) == IF a > b THEN a ELSE b

\* np.convolve(sig, taps, mode="same"), sample i.  numpy swaps its arguments when
\* the second is longer, correlates the longer with the reversed shorter one and
\* keeps max(N, K) samples starting (min(N, K) - 1) div 2 into the full result;
\* only overlapping samples enter a sum.
ConvLen(N, K) == Max(N, K)
ConvAt(sig, N, taps, K, i) ==
  LET short == IF K > N THEN N ELSE K
      off == (short - 1) \div 2
      S == {s \in 0..(N - 1) : (i + off - s) \in 0..(K - 1)}
      term == [s \in S |-> MulW(sig[s], taps[i + off - s])]
  IN SumTerms(S, term)

\* np.apply_along_axis(lambda m: np.convolve(m, kernel, "same"), axis, arr) twice:
\* rows (axis=1) of img2d, then columns (axis=0) of the row pass's result.
RowPass(img2d, kernel) ==
  LET H == img2d.shape[1]
      W == img2d.shape[2]
      K == KLen(kernel)
      L == ConvLen(W, K)
  IN Array("float32", <<H, L>>,
           [p \in (0..(H - 1)) \X (0..(L - 1)) |->
              ConvAt([j \in 0..(W - 1) |-> img2d.data[<<p[1], j>>]], W,
                     kernel.taps, K, p[2])],
           img2d.den * kernel.den)

ColPass(tmp, kernel) ==
  LET H == tmp.shape[1]
      W == tmp.shape[2]
      K == KLen(kernel)
      L == ConvLen(H, K)
  IN Array("float32", <<L, W>>,
           [p \in (0..(L - 1)) \X (0..(W - 1)) |->
              ConvAt([i \in 0..(H - 1) |-> tmp.data[<<i, p[2]>>]], H,
                     kernel.taps, K, p[1])],
           tmp.den * kernel.den)

_apply_separable_conv2d(img2d, kernel) ==
  LET tmp == RowPass(img2d, kernel)
      out2d == ColPass(tmp, kernel)
  IN out2d

\* ------------------------------------------------------------------ normalization
\* a < b in the IEEE order of non-NaN elements of one array.
Less(a, b) ==
  IF a.k = "ninf" THEN b.k # "ninf"
  ELSE IF a.k = "pinf" THEN FALSE
  ELSE IF b.k = "pinf" THEN TRUE
  ELSE IF b.k = "ninf" THEN FALSE
  ELSE a.n < b.n

\* np.nanmin / np.nanmax: NaN entries are skipped; an all-NaN array gives NaN.
nanmin(a) ==
  LET V == {a.data[p] : p \in DOMAIN a.data} \ {NaN}
  IN IF V = {} THEN NaN ELSE CHOOSE v \in V : \A w \in V : ~Less(w, v)

nanmax(a) ==
  LET V == {a.data[p] : p \in DOMAIN a.data} \ {NaN}
  IN IF V = {} THEN NaN ELSE CHOOSE v \in V : \A w \in V : ~Less(v, w)

isfinite(v) == v.k = "fin"

\* img.astype(np.float32, copy=True): a new float32 array with the same values.
astype_float32(a) ==
  Array("float32", a.shape, [p \in DOMAIN a.data |-> a.data[p]], a.den)

\* (x - minv) / (maxv - minv) for finite minv < maxv (numerators over a.den).
Rescale(x, minv, maxv) ==
  IF x.k = "fin" THEN Fin(x.n - minv.n) ELSE x

zeros_like(a) ==
  Array("float32", a.shape, [p \in DOMAIN a.data |-> Fin(0)], 1)

\* Mutant: line 83 dividing by maxv instead of (maxv - minv).
NormalizeArray_DivByMax(a) ==
  LET minv == nanmin(a)
      maxv == nanmax(a)
  IN IF isfinite(minv) /\ isfinite(maxv) /\ Less(minv, maxv)
       THEN Array("float32", a.shape,
                  [p \in DOMAIN a.data |-> Rescale(a.data[p], minv, maxv)],
                  maxv.n)
       ELSE zeros_like(a)

NormalizeArray(a) ==
  LET minv == nanmin(a)
      maxv == nanmax(a)
  IN IF isfinite(minv) /\ isfinite(maxv) /\ Less(minv, maxv)
       THEN Array("float32", a.shape,
                  [p \in DOMAIN a.data |-> Rescale(a.data[p], minv, maxv)],
                  maxv.n - minv.n)
       ELSE zeros_like(a)

\* ------------------------------------------------------------------ inputs
\* Input arrays: a background (all zeros, or the row-major ramp 0, 1, 2, ...
\* taken modulo MaxVal + 1), as it is or with its first, middle or last element
\* (in row-major order) replaced by MaxVal or, making the input a
\* floating-point one, by NaN, +Inf or -Inf.
Replacements == {Fin(MaxVal), NaN, PInf, NInf}

Linear(shape, p) ==
  IF Len(shape) = 1 THEN p[1]
  ELSE IF Len(shape) = 2 THEN p[1] * shape[2] + p[2]
  ELSE IF Len(shape) = 3 THEN (p[1] * shape[2] + p[2]) * shape[3] + p[3]
  ELSE ((p[1] * shape[2] + p[2]) * shape[3] + p[3]) * shape[4] + p[4]

Backgrounds(shape) ==
  {[p \in Idx(shape) |-> Fin(0)],
   [p \in Idx(shape) |-> Fin(Linear(shape, p) % (MaxVal + 1))]}

Perturbed(shape) ==
  LET P == Cardinality(Idx(shape))
      at == {p \in Idx(shape) : Linear(shape, p) \in {0, P \div 2, P - 1}}
  IN Backgrounds(shape)
       \cup {[d EXCEPT ![p] = v] : d \in Backgrounds(shape), p \in at, v \in Replacements}

InputDtype(d) ==
  IF \A p \in DOMAIN d : d[p].k = "fin" THEN "uint8" ELSE "float64"

ValidShapes ==
  {<<h, w>> : h \in 1..MaxH, w \in 1..MaxW}
    \cup {<<h, w, ch>> : h \in 1..MaxH, w \in 1..MaxW, ch \in 1..MaxC}
InvalidShapes == {<<2>>, <<1, 1, 1, 2>>}

Images ==
  {Array(InputDtype(d[2]), d[1], d[2], 1) :
     d \in UNION {{<<sh, x>> : x \in Perturbed(sh)} :
                    sh \in ValidShapes \cup InvalidShapes}}
    \cup {PyList(<<1, 2>>, [p \in Idx(<<1, 2>>) |-> Fin(p[2])])}

\* The default of the parameter filter_sigma.
DefaultSigma == Sig(1, 1)
\* A positive sigma within the tolerance of np.isclose: 1e-9.
TinySigma == Sig(1, 10 * IsCloseAtolInv)
Sigmas == {None, Sig(-1, 1), Sig(0, 1), TinySigma, Sig(1, 3), DefaultSigma}

\* ------------------------------------------------------------------ process_image
VARIABLES args, filter_sigma, img_f, kernel, out, c, pc, err, result
vars == <<args, filter_sigma, img_f, kernel, out, c, pc, err, result>>

NoKernel == Kernel(<<>>, 0)
NoError == [type |-> "none", msg |-> "none"]
Error(type, msg) == [type |-> type, msg |-> msg]

Init ==
  /\ args \in [img : Images, normalize : BOOLEAN, filter_sigma : Sigmas]
  /\ filter_sigma = args.filter_sigma
  /\ img_f = NoArray
  /\ kernel = NoKernel
  /\ out = NoArray
  /\ c = 0
  /\ pc = "call"
  /\ err = NoError
  /\ result = NoArray

Raise(e) ==
  /\ pc' = "raised"
  /\ err' = e

\* Mutant: the check of lines 72-73 left out.
Validate_SigmaUnchecked ==
  /\ pc = "call"
  /\ IF args.img.cls # "ndarray"
       THEN Raise(Error("TypeError", "img must be a numpy.ndarray"))
            /\ UNCHANGED filter_sigma
     ELSE IF ndim(args.img) \notin {2, 3}
       THEN Raise(Error("ValueError", "img must be 2D (H,W) or 3D (H,W,C) with channels last"))
            /\ UNCHANGED filter_sigma
     ELSE /\ filter_sigma' = IF filter_sigma = None THEN Sig(0, 1) ELSE filter_sigma
          /\ pc' = "validated"
          /\ UNCHANGED err
  /\ UNCHANGED <<args, img_f, kernel, out, c, result>>

\* Lines 63-73: the type, rank and sigma checks, in this order.
Validate ==
  /\ pc = "call"
  /\ IF args.img.cls # "ndarray"
       THEN Raise(Error("TypeError", "img must be a numpy.ndarray"))
            /\ UNCHANGED filter_sigma
     ELSE IF ndim(args.img) \notin {2, 3}
       THEN Raise(Error("ValueError", "img must be 2D (H,W) or 3D (H,W,C) with channels last"))
            /\ UNCHANGED filter_sigma
     ELSE LET sigma == IF filter_sigma = None THEN Sig(0, 1) ELSE filter_sigma
          IN /\ filter_sigma' = sigma
             /\ IF sigma.num < 0
                  THEN Raise(Error("ValueError", "filter_sigma must be non-negative"))
                  ELSE pc' = "validated" /\ UNCHANGED err
  /\ UNCHANGED <<args, img_f, kernel, out, c, result>>

\* Line 76.
Convert ==
  /\ pc = "validated"
  /\ img_f' = astype_float32(args.img)
  /\ pc' = "converted"
  /\ UNCHANGED <<args, filter_sigma, kernel, out, c, err, result>>

\* Lines 79-86.
Normalize ==
  /\ pc = "converted"
  /\ img_f' = IF args.normalize THEN NormalizeArray(img_f) ELSE img_f
  /\ pc' = "normalized"
  /\ UNCHANGED <<args, filter_sigma, kernel, out, c, err, result>>

\* Line 89: `filter_sigma and (filter_sigma > 0)`.
Filtering == filter_sigma.num # 0 /\ filter_sigma.num > 0

\* Lines 89-90.
BuildKernel ==
  /\ pc = "normalized"
  /\ Filtering
  /\ kernel' = _gaussian_kernel1d(filter_sigma)
  /\ pc' = "kernel"
  /\ UNCHANGED <<args, filter_sigma, img_f, out, c, err, result>>

\* Line 89, condition false: straight to the return.
SkipFilter ==
  /\ pc = "normalized"
  /\ ~Filtering
  /\ pc' = "filtered"
  /\ UNCHANGED <<args, filter_sigma, img_f, kernel, out, c, err, result>>

\* Lines 91-92.
Filter2D ==
  /\ pc = "kernel"
  /\ ndim(img_f) = 2
  /\ img_f' = _apply_separable_conv2d(img_f, kernel)
  /\ pc' = "filtered"
  /\ UNCHANGED <<args, filter_sigma, kernel, out, c, err, result>>

\* np.empty_like(img_f): same shape and dtype, contents left as found in memory.
\* The contents are one of GarbageFill in every element; the denominator is
\* that of the planes the loop will store.
GarbageFill == {Fin(0), Fin(1)}
empty_like(a, g, den) ==
  Array(a.dtype, a.shape, [p \in DOMAIN a.data |-> g], den)

\* Line 95 and the loop header of line 96.
AllocOut ==
  /\ pc = "kernel"
  /\ ndim(img_f) = 3
  /\ \E g \in GarbageFill :
       out' = empty_like(img_f, g, img_f.den * kernel.den * kernel.den)
  /\ c' = 0
  /\ pc' = "loop"
  /\ UNCHANGED <<args, filter_sigma, img_f, kernel, err, result>>

\* img_f[:, :, ch]
Channel(a, ch) ==
  Array(a.dtype, <<a.shape[1], a.shape[2]>>,
        [p \in (0..(a.shape[1] - 1)) \X (0..(a.shape[2] - 1)) |->
           a.data[<<p[1], p[2], ch>>]],
        a.den)

\* numpy's rule for storing src into a slice of shape dst: each dimension of
\* src equals that of dst or is 1.
CanBroadcast(src, dst) ==
  /\ Len(src) = Len(dst)
  /\ \A i \in 1..Len(dst) : src[i] = dst[i] \/ src[i] = 1

\* Mutant: line 97 storing into every channel, out[:, :, :] = plane[:, :, None].
SetChannel_AllChannels(a, ch, plane) ==
  [a EXCEPT !.data =
     [p \in DOMAIN a.data |->
        plane.data[<<IF plane.shape[1] = 1 THEN 0 ELSE p[1],
                     IF plane.shape[2] = 1 THEN 0 ELSE p[2]>>]]]

\* out[:, :, ch] = plane
SetChannel(a, ch, plane) ==
  [a EXCEPT !.data =
     [p \in DOMAIN a.data |->
        IF p[3] = ch
          THEN plane.data[<<IF plane.shape[1] = 1 THEN 0 ELSE p[1],
                            IF plane.shape[2] = 1 THEN 0 ELSE p[2]>>]
          ELSE a.data[p]]]

\* Lines 96-97, one iteration.
FilterChannel ==
  /\ pc = "loop"
  /\ c < img_f.shape[3]
  /\ LET plane == _apply_separable_conv2d(Channel(img_f, c), kernel)
     IN IF CanBroadcast(plane.shape, <<out.shape[1], out.shape[2]>>)
          THEN /\ out' = SetChannel(out, c, plane)
               /\ c' = c + 1
               /\ UNCHANGED <<pc, err>>
          ELSE /\ Raise(Error("ValueError", "could not broadcast input array"))
               /\ UNCHANGED <<out, c>>
  /\ UNCHANGED <<args, filter_sigma, img_f, kernel, result>>

\* Line 98, after the last iteration.
EndLoop ==
  /\ pc = "loop"
  /\ c >= img_f.shape[3]
  /\ img_f' = out
  /\ pc' = "filtered"
  /\ UNCHANGED <<args, filter_sigma, kernel, out, c, err, result>>

\* Line 101.
Return ==
  /\ pc = "filtered"
  /\ result' = astype_float32(img_f)
  /\ pc' = "done"
  /\ UNCHANGED <<args, filter_sigma, img_f, kernel, out, c, err>>

Next ==
  \/ Validate
  \/ Convert
  \/ Normalize
  \/ BuildKernel
  \/ SkipFilter
  \/ Filter2D
  \/ AllocOut
  \/ FilterChannel
  \/ EndLoop
  \/ Return

Spec == Init /\ [][Next]_vars

\* ------------------------------------------------------------------ _gaussian_kernel1d alone
\* The kernel builder applied to each sigma of KernelSigmas, as a pure function.
MaxSigmaNum == 6
MaxSigmaDen == 6
KernelSigmas ==
  {Sig(n, d) : n \in (-2)..MaxSigmaNum, d \in (1..MaxSigmaDen) \cup {IsCloseAtolInv}}

KernelInit ==
  /\ filter_sigma \in KernelSigmas
  /\ args = [img |-> NoArray, normalize |-> FALSE, filter_sigma |-> filter_sigma]
  /\ img_f = NoArray
  /\ kernel = NoKernel
  /\ out = NoArray
  /\ c = 0
  /\ pc = "kernel_call"
  /\ err = NoError
  /\ result = NoArray

KernelCall ==
  /\ pc = "kernel_call"
  /\ kernel' = _gaussian_kernel1d(filter_sigma)
  /\ pc' = "kernel_return"
  /\ UNCHANGED <<args, filter_sigma, img_f, out, c, err, result>>

KernelNext == KernelCall

KernelSpec == KernelInit /\ [][KernelNext]_vars

\* ================================================================== properties
\* The call's arguments are valid: an ndarray of rank 2 or 3 and a sigma that is
\* None or non-negative.
NegativeSigma == args.filter_sigma # None /\ args.filter_sigma.num < 0
ValidCall ==
  /\ args.img.cls = "ndarray"
  /\ ndim(args.img) \in {2, 3}
  /\ ~NegativeSigma

\* The sigma supplied leaves the image unsmoothed: None, zero, or within 1e-8 of zero.
NoSmoothing ==
  \/ args.filter_sigma = None
  \/ args.filter_sigma.num = 0
  \/ /\ args.filter_sigma.num > 0
     /\ args.filter_sigma.den >= IsCloseAtolInv
     /\ args.filter_sigma.num * IsCloseAtolInv <= args.filter_sigma.den

Elems(a) == {a.data[p] : p \in DOMAIN a.data}

\* The input's NaN-ignoring minimum and maximum are finite with max > min.
NonDegenerateInput ==
  LET V == Elems(args.img) \ {NaN}
  IN /\ \A v \in V : v.k = "fin"
     /\ \E v \in V : \E w \in V : v.n < w.n

FiniteNonConstantInput ==
  /\ \A v \in Elems(args.img) : v.k = "fin"
  /\ \E v \in Elems(args.img) : \E w \in Elems(args.img) : v.n < w.n

InUnitInterval(a) ==
  \A v \in Elems(a) : v.k = "fin" /\ 0 <= v.n /\ v.n <= a.den

MinIs0MaxIs1(a) ==
  /\ InUnitInterval(a)
  /\ \E v \in Elems(a) : v.n = 0
  /\ \E v \in Elems(a) : v.n = a.den

AllZero(a) == \A v \in Elems(a) : v.k = "fin" /\ v.n = 0

\* Two arrays hold the same numbers in the same places.
SameArray(a, b) ==
  /\ a.shape = b.shape
  /\ DOMAIN a.data = DOMAIN b.data
  /\ \A p \in DOMAIN a.data :
       /\ a.data[p].k = b.data[p].k
       /\ IF a.den = b.den THEN a.data[p].n = b.data[p].n
                           ELSE a.data[p].n * b.den = b.data[p].n * a.den

\* C1: for every valid call the returned array has exactly the rank and shape
\* of img, whatever the kernel length is relative to the height and width.
C1_ShapePreserved ==
  (ValidCall /\ pc = "done") => result.shape = args.img.shape

\* C2: process_image never fails on valid input: a valid call never raises, in
\* the rank-2 branch and in the rank-3 per-channel branch.
C2_NeverRaises ==
  ValidCall => pc # "raised"

\* C3: every invalid call fails during validation, before the float32
\* conversion, the normalization or any kernel construction, and returns no
\* array; a rank other than 2 or 3 fails with the shape failure and a negative
\* sigma with a ValueError.
ShapeFailure ==
  Error("ValueError", "img must be 2D (H,W) or 3D (H,W,C) with channels last")
C3_InvalidFailsInValidation ==
  (~ValidCall /\ pc # "call") =>
    /\ pc = "raised"
    /\ img_f = NoArray /\ kernel = NoKernel /\ out = NoArray /\ result = NoArray
    /\ (args.img.cls = "ndarray" /\ ndim(args.img) \notin {2, 3}) => err = ShapeFailure
    /\ (args.img.cls = "ndarray" /\ NegativeSigma) => err.type = "ValueError"
    /\ (args.img.cls = "ndarray" /\ ndim(args.img) \in {2, 3}) =>
         err = Error("ValueError", "filter_sigma must be non-negative")

C3_Witness ==
  /\ pc = "raised"
  /\ ndim(args.img) = 3
  /\ NegativeSigma
  /\ err = Error("ValueError", "filter_sigma must be non-negative")

\* C4 as stated: with normalize=True and a finite, non-constant image, the
\* output's minimum is 0 and its maximum is 1, for every filter_sigma.  Stated
\* here for the calls whose result has the input's shape (an image at least as
\* high and wide as the kernel), where the convolution is the same-size one.
C4_MinMaxAnySigma ==
  (ValidCall /\ args.normalize /\ FiniteNonConstantInput /\ pc = "done"
     /\ result.shape = args.img.shape)
    => MinIs0MaxIs1(result)

\* C4 as amended: with normalize=True, a finite, non-constant image and a
\* filter_sigma that is None, 0 or within 1e-8 of zero (no smoothing), the
\* output's minimum is 0 and its maximum is 1.
C4_MinMaxNoSmoothing ==
  (ValidCall /\ args.normalize /\ FiniteNonConstantInput /\ NoSmoothing /\ pc = "done")
    => MinIs0MaxIs1(result)

C4_Witness ==
  /\ pc = "done"
  /\ args.normalize
  /\ FiniteNonConstantInput
  /\ args.filter_sigma = TinySigma
  /\ ndim(args.img) = 3
  /\ \E v \in Elems(result) : 0 < v.n /\ v.n < result.den

\* C5: with normalize=True and a non-degenerate input (which may contain NaN
\* entries), every element lies in [0, 1], directly after the rescale and in
\* the returned array, for any non-negative sigma.
C5_UnitInterval ==
  (ValidCall /\ args.normalize /\ NonDegenerateInput) =>
    /\ pc = "normalized" => InUnitInterval(img_f)
    /\ pc = "done" => InUnitInterval(result)

\* C6: with normalize=True and a degenerate input (max <= min, all NaN, or an
\* infinite bound), process_image returns an array of zeros, for every
\* non-negative or None filter_sigma.
C6_DegenerateGivesZeros ==
  (ValidCall /\ args.normalize /\ ~NonDegenerateInput) =>
    /\ pc # "raised"
    /\ pc = "done" => AllZero(result)

\* C7: when filter_sigma is None, 0 or positive within 1e-8 of zero, filtering
\* is a no-op: the returned array equals, element for element, the normalized
\* array (the float32 copy of the input when normalize=False).
C7_NoSmoothingIsNoOp ==
  (ValidCall /\ NoSmoothing /\ pc = "done") =>
    SameArray(result,
              IF args.normalize THEN NormalizeArray(astype_float32(args.img))
                                ELSE astype_float32(args.img))

C7_Witness ==
  /\ pc = "done"
  /\ args.filter_sigma = TinySigma
  /\ kernel = DegenerateKernel
  /\ ndim(args.img) = 3
  /\ args.normalize
  /\ NonDegenerateInput
  /\ c = args.img.shape[3]

\* C8: in the per-channel loop, the iteration for channel c stores the
\* convolution of channel c of the normalized input, and of nothing else, into
\* slice c of out, and leaves every other slice of out as it was.
PlaneOf(a, ch) ==
  [p \in (0..(a.shape[1] - 1)) \X (0..(a.shape[2] - 1)) |-> a.data[<<p[1], p[2], ch>>]]
C8_ChannelStep ==
  (pc = "loop" /\ pc' = "loop" /\ c' = c + 1) =>
    /\ PlaneOf(out', c) =
         _apply_separable_conv2d(
           Array("float32", <<img_f.shape[1], img_f.shape[2]>>, PlaneOf(img_f, c),
                 img_f.den), kernel).data
    /\ \A ch \in 0..(img_f.shape[3] - 1) : ch # c => PlaneOf(out', ch) = PlaneOf(out, ch)
C8_ChannelIndependence == [][C8_ChannelStep]_vars

C8_Witness ==
  /\ pc = "loop"
  /\ c = 2
  /\ KLen(kernel) = 3
  /\ PlaneOf(img_f, 0) # PlaneOf(img_f, 1)
  /\ PlaneOf(out, 0) # PlaneOf(out, 1)

\* C9: for sigma > 0 and not within 1e-8 of zero the kernel has the odd length
\* 2r+1 with r = ceil(3*sigma), is symmetric about its center, has non-negative
\* taps that fall off from the center sample exp(0) = 1, and sums to 1; for
\* sigma <= 0 or within 1e-8 of zero it is the single-tap kernel [1.0].
C9_KernelShape ==
  pc = "kernel_return" =>
    IF filter_sigma.num <= 0
         \/ (filter_sigma.den >= IsCloseAtolInv
               /\ filter_sigma.num * IsCloseAtolInv <= filter_sigma.den)
      THEN kernel = DegenerateKernel
      ELSE \E r \in 1..(3 * MaxSigmaNum + 3) :
             /\ r * filter_sigma.den >= 3 * filter_sigma.num
             /\ (r - 1) * filter_sigma.den < 3 * filter_sigma.num
             /\ DOMAIN kernel.taps = 0..(2 * r)
             /\ \A j \in 0..r : kernel.taps[r - j] = kernel.taps[r + j]
             /\ \A i \in 0..(2 * r) : kernel.taps[i] >= 0
             /\ kernel.taps[r] = ExpScale
             /\ \A j \in 1..r : kernel.taps[r + j] <= kernel.taps[r + j - 1]
             /\ kernel.den > 0
             /\ SumTaps(kernel.taps, 2 * r + 1) = kernel.den

C9_Witness ==
  /\ pc = "kernel_return"
  /\ filter_sigma = Sig(5, 4)
  /\ KLen(kernel) = 9
  /\ kernel.taps[3] > 0 /\ kernel.taps[3] < kernel.taps[4]

\* C10: _apply_separable_conv2d computes, for every plane of height H and width
\* W (W < K and H < K included), a row pass whose sample i is the sum over taps k
\* of row[i - K/2 + k] * kernel[k] with indices outside the row read as zero,
\* then the same along the columns of the row pass's output.
SpecConvAt(sig, N, taps, K, i) ==
  LET S == {k \in 0..(K - 1) : (i - (K \div 2) + k) \in 0..(N - 1)}
      term == [k \in S |-> MulW(sig[i - (K \div 2) + k], taps[k])]
  IN SumTerms(S, term)
SpecSeparable(plane, kern) ==
  LET H == plane.shape[1]
      W == plane.shape[2]
      K == KLen(kern)
      rows == [p \in (0..(H - 1)) \X (0..(W - 1)) |->
                 SpecConvAt([j \in 0..(W - 1) |-> plane.data[<<p[1], j>>]], W,
                            kern.taps, K, p[2])]
      cols == [p \in (0..(H - 1)) \X (0..(W - 1)) |->
                 SpecConvAt([i \in 0..(H - 1) |-> rows[<<i, p[2]>>]], H,
                            kern.taps, K, p[1])]
  IN Array("float32", <<H, W>>, cols, plane.den * kern.den * kern.den)
C10_Step ==
  (pc = "kernel" /\ pc' = "filtered") => SameArray(img_f', SpecSeparable(img_f, kernel))
C10_ZeroPaddedSameSize == [][C10_Step]_vars

====
